---- MODULE Spec2Model ----
(***************************************************************************)
(* Model of the Ethoscan Genesis Score Verifier (src/ethoscan-verifier.js). *)
(*                                                                         *)
(* One Ethoscan object serves verify(walletAddress) calls.  verify is an   *)
(* async method: it suspends at every await, so each step between two      *)
(* awaits is one atomic action.  The Chain Fact Provider (ethers) is the   *)
(* environment: provider.getCode and safe.getOwners either resolve with a  *)
(* value or reject with an error.  getTier is a public synchronous method  *)
(* that a caller may also invoke directly with any score.                  *)
(*                                                                         *)
(* Message texts are the source's texts with the non-ASCII characters      *)
(* (the warning sign and the em dash) left out or written as "-".          *)
(***************************************************************************)
EXTENDS Integers, Sequences, FiniteSets, TLC

\* ---------------------------------------------------------------- bounds
\* Largest owners array the modelled getOwners call returns.
MaxOwners == 4

\* ------------------------------------------------------------- constants
\* result.maxScore, and the range of scores getTier is called with.
MaxScore == 500

\* verifiedTeams of checkTeam.
verifiedTeams ==
    << "0x742d35Cc6634C0532925a3b8D4C9db4c2B6D9126",
       "0x1234567890123456789012345678901234567890" >>

\* Wallet addresses verify is called with: both registered team addresses,
\* the demo's placeholder and one unregistered address.
Addresses ==
    { verifiedTeams[1], verifiedTeams[2],
      "0xScamWalletAddressHere",
      "0x3E5c63644E683549055b9Be8653de26E0B4CD36E" }

\* error.message of a rejection of the provider.
ErrorMessages == { "timeout", "could not detect network" }

\* Non-empty bytecode returned by provider.getCode for a contract.
ContractCode == "0x6080"

PillarNames ==
    { "teamTransparency", "fairLaunchPledge",
      "liquidityCommitment", "treasuryTransparency" }

VARIABLES
    pc,        \* position of the verify call: idle, the await it is
               \* suspended at, "catch" or "done" (report returned)
    result,    \* the report object verify builds and returns
    code,      \* outcome of provider.getCode in checkTreasury
    owners,    \* outcome of safe.getOwners in checkTreasury
    error,     \* message of the exception in flight, "none" if none
    tierCall   \* the last direct call of getTier: argument and value

vars == << pc, result, code, owners, error, tierCall >>

\* ------------------------------------------------------- message texts
SingleKeyRisk == "Project treasury is single-key wallet - critical risk"
NonGnosisRisk == "Non-Gnosis treasury - high withdrawal risk"
HighScamRisk == "High scam risk: Insufficient trust signals"
TreasuryNotVerifiedWarning == "Treasury not verified as Gnosis Safe"
NoLpLockWarning == "No long-term LP lock detected"

\* `Low-signer Gnosis Safe (${owners.length}/3)`
LowSignerWarning(n) == "Low-signer Gnosis Safe (" \o ToString(n) \o "/3)"

\* "Verification failed: " + error.message
VerificationFailedWarning(msg) == "Verification failed: " \o msg

\* ----------------------------------------------------------- the report
\* A pillar entry of the report.
Pillar(v, p, d) == [verified |-> v, points |-> p, details |-> d]

\* The result object verify creates on entry.
NewResult(walletAddress) ==
    [ address  |-> walletAddress,
      score    |-> 0,
      maxScore |-> MaxScore,
      tier     |-> "Unverified",
      pillars  |-> [n \in PillarNames |-> Pillar(FALSE, 0, "")],
      risks    |-> << >>,
      warnings |-> << >> ]

\* The local of verify while no call is in flight.
Undefined == [address |-> "undefined"]

\* result.pillars[name] = value
SetPillar(res, name, value) ==
    [res EXCEPT !.pillars = [@ EXCEPT ![name] = value]]

\* result.risks.push(r) / result.warnings.push(w)
PushRisk(res, r) == [res EXCEPT !.risks = Append(@, r)]
PushWarning(res, w) == [res EXCEPT !.warnings = Append(@, w)]

\* ------------------------------------------------------------ getTier
getTierStrict(score) ==
    IF score > 350 THEN "Verified Builder"
    ELSE IF score > 200 THEN "Emerging Builder"
    ELSE "Unverified"

getTier(score) ==
    IF score >= 350 THEN "Verified Builder"
    ELSE IF score >= 200 THEN "Emerging Builder"
    ELSE "Unverified"

\* ------------------------------------------------------- checkTreasury
\* The else branch of code !== "0x": an externally owned account.
TreasuryEOA(res) ==
    PushRisk(SetPillar(res, "treasuryTransparency",
                       Pillar(FALSE, 0, "EOA wallet - not multi-sig")),
             SingleKeyRisk)

TreasurySafeOffByOne(res, n) ==
    IF n > 3
    THEN SetPillar(res, "treasuryTransparency",
                   Pillar(TRUE, 150,
                          "Gnosis Safe with " \o ToString(n) \o " signers"))
    ELSE PushWarning(
             SetPillar(res, "treasuryTransparency",
                       Pillar(FALSE, 0,
                              "Gnosis Safe but only " \o ToString(n)
                                  \o " signers (<3)")),
             LowSignerWarning(n))

\* getOwners resolved with an array of n owners.
TreasurySafe(res, n) ==
    IF n >= 3
    THEN SetPillar(res, "treasuryTransparency",
                   Pillar(TRUE, 150,
                          "Gnosis Safe with " \o ToString(n) \o " signers"))
    ELSE PushWarning(
             SetPillar(res, "treasuryTransparency",
                       Pillar(FALSE, 0,
                              "Gnosis Safe but only " \o ToString(n)
                                  \o " signers (<3)")),
             LowSignerWarning(n))

\* The inner catch: the contract call or getOwners threw.
TreasuryNotSafe(res) ==
    PushRisk(SetPillar(res, "treasuryTransparency",
                       Pillar(FALSE, 0, "Not a Gnosis Safe")),
             NonGnosisRisk)

\* ------------------------------------------------------ checkLiquidity
mockLpLock179 == [locked |-> TRUE, days |-> 179, renounceable |-> FALSE]

mockLpLock == [locked |-> TRUE, days |-> 180, renounceable |-> FALSE]

checkLiquidity(res) ==
    IF mockLpLock.locked /\ mockLpLock.days >= 180
       /\ ~mockLpLock.renounceable
    THEN SetPillar(res, "liquidityCommitment",
                   Pillar(TRUE, 150,
                          "LP locked for " \o ToString(mockLpLock.days)
                              \o " days (non-renounceable)"))
    ELSE SetPillar(res, "liquidityCommitment",
                   Pillar(FALSE, 0, "No qualifying LP lock"))

\* ----------------------------------------------------------- checkTeam
\* verifiedTeams.includes(address)
Includes(seq, x) == \E i \in 1..Len(seq) : seq[i] = x

checkTeamWrongPoints(res, address) ==
    IF Includes(verifiedTeams, address)
    THEN SetPillar(res, "teamTransparency",
                   Pillar(TRUE, 150, "Team verified via ENS/SIWE"))
    ELSE SetPillar(res, "teamTransparency",
                   Pillar(FALSE, 0, "No team verification"))

checkTeam(res, address) ==
    IF Includes(verifiedTeams, address)
    THEN SetPillar(res, "teamTransparency",
                   Pillar(TRUE, 100, "Team verified via ENS/SIWE"))
    ELSE SetPillar(res, "teamTransparency",
                   Pillar(FALSE, 0, "No team verification"))

\* ----------------------------------------------------- checkFairLaunch
hasPledge == FALSE

checkFairLaunch(res) ==
    IF hasPledge
    THEN SetPillar(res, "fairLaunchPledge",
                   Pillar(TRUE, 100, "Fair launch pledge signed"))
    ELSE SetPillar(res, "fairLaunchPledge",
                   Pillar(FALSE, 0, "No fair launch pledge"))

\* ------------------------------------------- the tail of verify's try
SumPointsSkipTeam(pillars) ==
    pillars["fairLaunchPledge"].points
    + pillars["liquidityCommitment"].points
    + pillars["treasuryTransparency"].points

\* Object.values(result.pillars).reduce((sum, p) => sum + p.points, 0)
SumPoints(pillars) ==
    pillars["teamTransparency"].points
    + pillars["fairLaunchPledge"].points
    + pillars["liquidityCommitment"].points
    + pillars["treasuryTransparency"].points

\* result.score = ...; result.tier = this.getTier(result.score)
SetScore(res) ==
    LET s == SumPoints(res.pillars)
    IN  [res EXCEPT !.score = s, !.tier = getTier(s)]

AddRiskWarningsUnshift(res) ==
    LET r1 == IF res.score < 200 THEN PushRisk(res, HighScamRisk) ELSE res
        r2 == IF ~r1.pillars["treasuryTransparency"].verified
              THEN [r1 EXCEPT !.warnings =
                        << TreasuryNotVerifiedWarning >> \o @]
              ELSE r1
    IN  IF ~r2.pillars["liquidityCommitment"].verified
        THEN PushWarning(r2, NoLpLockWarning)
        ELSE r2

\* "Add risk warnings": the three ifs after the score.
AddRiskWarnings(res) ==
    LET r1 == IF res.score < 200 THEN PushRisk(res, HighScamRisk) ELSE res
        r2 == IF ~r1.pillars["treasuryTransparency"].verified
              THEN PushWarning(r1, TreasuryNotVerifiedWarning)
              ELSE r1
    IN  IF ~r2.pillars["liquidityCommitment"].verified
        THEN PushWarning(r2, NoLpLockWarning)
        ELSE r2

CatchHandlerSilent(res, msg) == res

\* The catch block of verify.
CatchHandler(res, msg) == PushWarning(res, VerificationFailedWarning(msg))

\* ---------------------------------------------------------------- Init
Init ==
    /\ pc = "idle"
    /\ result = Undefined
    /\ code = "unset"
    /\ owners = [st |-> "unset", length |-> 0]
    /\ error = "none"
    /\ tierCall = [called |-> FALSE, score |-> 0, tier |-> ""]

\* ------------------------------------------------------------- actions
\* A caller invokes verify(walletAddress): the result object is created
\* and verify suspends in checkTreasury at await provider.getCode.
Verify(walletAddress) ==
    /\ pc \in {"idle", "done"}
    /\ pc' = "getCode"
    /\ result' = NewResult(walletAddress)
    /\ code' = "unset"
    /\ owners' = [st |-> "unset", length |-> 0]
    /\ error' = "none"
    /\ UNCHANGED tierCall

\* getCode resolves with "0x": the EOA branch runs and checkTreasury returns.
GetCodeEmpty ==
    /\ pc = "getCode"
    /\ code' = "0x"
    /\ result' = TreasuryEOA(result)
    /\ pc' = "checkLiquidity"
    /\ UNCHANGED << owners, error, tierCall >>

\* getCode resolves with bytecode: checkTreasury builds the contract and
\* suspends at await safe.getOwners.
GetCodeContract ==
    /\ pc = "getCode"
    /\ code' = ContractCode
    /\ pc' = "getOwners"
    /\ UNCHANGED << result, owners, error, tierCall >>

\* getCode rejects: checkTreasury has no handler around it, the rejection
\* leaves checkTreasury and arrives in the try block of verify.
GetCodeThrows(msg) ==
    /\ pc = "getCode"
    /\ code' = "threw"
    /\ error' = msg
    /\ pc' = "catch"
    /\ UNCHANGED << result, owners, tierCall >>

\* getOwners resolves with n owners.
GetOwnersReturns(n) ==
    /\ pc = "getOwners"
    /\ owners' = [st |-> "ok", length |-> n]
    /\ result' = TreasurySafe(result, n)
    /\ pc' = "checkLiquidity"
    /\ UNCHANGED << code, error, tierCall >>

\* getOwners rejects (or the contract cannot be built): the inner catch
\* of checkTreasury swallows the error.
GetOwnersThrows ==
    /\ pc = "getOwners"
    /\ owners' = [st |-> "threw", length |-> 0]
    /\ result' = TreasuryNotSafe(result)
    /\ pc' = "checkLiquidity"
    /\ UNCHANGED << code, error, tierCall >>

CheckLiquidity ==
    /\ pc = "checkLiquidity"
    /\ result' = checkLiquidity(result)
    /\ pc' = "checkTeam"
    /\ UNCHANGED << code, owners, error, tierCall >>

CheckTeam ==
    /\ pc = "checkTeam"
    /\ result' = checkTeam(result, result.address)
    /\ pc' = "checkFairLaunch"
    /\ UNCHANGED << code, owners, error, tierCall >>

CheckFairLaunch ==
    /\ pc = "checkFairLaunch"
    /\ result' = checkFairLaunch(result)
    /\ pc' = "score"
    /\ UNCHANGED << code, owners, error, tierCall >>

\* After the last await the rest of the try block runs: the score, the
\* tier and the aggregate risks and warnings; then verify returns.
Aggregate ==
    /\ pc = "score"
    /\ result' = AddRiskWarnings(SetScore(result))
    /\ pc' = "done"
    /\ UNCHANGED << code, owners, error, tierCall >>

\* The catch block of verify handles the exception in flight; verify
\* then returns the result.
Catch ==
    /\ pc = "catch"
    /\ result' = CatchHandler(result, error)
    /\ error' = "none"
    /\ pc' = "done"
    /\ UNCHANGED << code, owners, tierCall >>

\* A caller invokes getTier(score) directly.
GetTierCall(score) ==
    /\ tierCall' = [called |-> TRUE, score |-> score, tier |-> getTier(score)]
    /\ UNCHANGED << pc, result, code, owners, error >>

Next ==
    \/ \E a \in Addresses : Verify(a)
    \/ GetCodeEmpty
    \/ GetCodeContract
    \/ \E m \in ErrorMessages : GetCodeThrows(m)
    \/ \E n \in 0..MaxOwners : GetOwnersReturns(n)
    \/ GetOwnersThrows
    \/ CheckLiquidity
    \/ CheckTeam
    \/ CheckFairLaunch
    \/ Aggregate
    \/ Catch

\* verify calls only.
Spec == Init /\ [][Next]_vars

\* verify calls interleaved with direct calls of getTier.
NextTier ==
    \/ Next
    \/ \E s \in 0..MaxScore : GetTierCall(s)

SpecTier == Init /\ [][NextTier]_vars

\* ------------------------------------------------------------ properties
\* verify has returned its report to the caller.
Returned == pc = "done"

Treasury == result.pillars["treasuryTransparency"]
Liquidity == result.pillars["liquidityCommitment"]
Team == result.pillars["teamTransparency"]
FairLaunch == result.pillars["fairLaunchPledge"]

\* Number of entries of seq equal to x.
Count(seq, x) == Cardinality({i \in 1..Len(seq) : seq[i] = x})

LowSignerWarnings == {LowSignerWarning(n) : n \in 0..MaxOwners}
TreasuryRisks == {SingleKeyRisk, NonGnosisRisk}

\* A failure of the provider happened during the Treasury check.
ProviderFailed == code = "threw" \/ owners.st = "threw"

\* C1: when the provider fails during the Treasury check (getCode or
\* getOwners), the treasury pillar is unverified with 0 points, a warning
\* noting the failure is in the report, and the Liquidity, Team and
\* FairLaunch checks have run and their results are in the report.
C1_TreasuryFailureStaysLocal ==
    (Returned /\ ProviderFailed) =>
        /\ ~Treasury.verified /\ Treasury.points = 0
        /\ \E i \in 1..Len(result.warnings) :
               result.warnings[i] \notin
                   ({TreasuryNotVerifiedWarning, NoLpLockWarning}
                        \cup LowSignerWarnings)
        /\ Liquidity = checkLiquidity(NewResult(result.address))
                           .pillars["liquidityCommitment"]
        /\ Team = checkTeam(NewResult(result.address), result.address)
                      .pillars["teamTransparency"]
        /\ FairLaunch = checkFairLaunch(NewResult(result.address))
                            .pillars["fairLaunchPledge"]

\* C2: in every returned report the score is the sum of the points of the
\* four pillars and lies in [0,500].
C2_ScoreIsSumOfPillars ==
    Returned =>
        /\ result.score = Treasury.points + Liquidity.points
                          + Team.points + FairLaunch.points
        /\ result.score \in 0..500

C2_Witness ==
    Returned /\ Treasury.verified /\ Team.verified /\ result.score = 400

\* C3: verify never throws to its caller: an exception in flight is always
\* on its way to verify's catch block and is gone when verify returns; the
\* report of a top-level failure has score 0, tier Unverified, all four
\* pillars present, unverified with 0 points, and exactly one warning,
\* which describes the failure.
C3_NeverThrowsTopLevelReport ==
    /\ error # "none" => pc = "catch"
    /\ Returned => error = "none"
    /\ (Returned /\ code = "threw") =>
           /\ result.score = 0
           /\ result.tier = "Unverified"
           /\ DOMAIN result.pillars = PillarNames
           /\ \A n \in PillarNames :
                  ~result.pillars[n].verified /\ result.pillars[n].points = 0
           /\ Len(result.warnings) = 1
           /\ \E m \in ErrorMessages :
                  result.warnings[1] = VerificationFailedWarning(m)

C3_Witness == Returned /\ code = "threw" /\ Len(result.warnings) = 1

\* The tier the claim assigns to a score.
TierMatchesScore(tier, score) ==
    /\ tier \in {"Verified Builder", "Emerging Builder", "Unverified"}
    /\ tier = "Verified Builder" <=> score >= 350
    /\ tier = "Emerging Builder" <=> (200 <= score /\ score < 350)
    /\ tier = "Unverified" <=> score < 200

\* C4: the tier of every returned report is determined by its score alone:
\* VerifiedBuilder from 350, EmergingBuilder from 200 to 349, Unverified
\* below 200; getTier is total over [0,500] with inclusive lower bounds.
C4_TierFromScore ==
    /\ Returned => TierMatchesScore(result.tier, result.score)
    /\ tierCall.called =>
           /\ tierCall.score \in 0..500
           /\ TierMatchesScore(tierCall.tier, tierCall.score)

C4_Witness ==
    /\ Returned /\ result.tier = "Verified Builder"
    /\ tierCall.called /\ tierCall.score = 350

\* The Treasury check of the call in flight has completed.
TreasuryChecked ==
    pc \in {"checkLiquidity", "checkTeam", "checkFairLaunch", "score", "done"}
    /\ code # "threw"

\* C5: the Treasury decision table.  Empty bytecode: unverified, 0 points,
\* the single-key risk.  Bytecode and at least 3 owners: verified, 150
\* points.  Bytecode and fewer than 3 owners: unverified, 0 points, the
\* low-signer warning and no treasury risk.  Bytecode and a failing
\* getOwners call: unverified, 0 points, the non-multisig risk.
C5_TreasuryDecisionTable ==
    TreasuryChecked =>
        /\ code = "0x" =>
               /\ ~Treasury.verified /\ Treasury.points = 0
               /\ Count(result.risks, SingleKeyRisk) = 1
        /\ (code = ContractCode /\ owners.st = "ok" /\ owners.length >= 3) =>
               /\ Treasury.verified /\ Treasury.points = 150
               /\ \A i \in 1..Len(result.risks) :
                      result.risks[i] \notin TreasuryRisks
               /\ \A i \in 1..Len(result.warnings) :
                      result.warnings[i] \notin LowSignerWarnings
        /\ (code = ContractCode /\ owners.st = "ok" /\ owners.length < 3) =>
               /\ ~Treasury.verified /\ Treasury.points = 0
               /\ Count(result.warnings, LowSignerWarning(owners.length)) = 1
               /\ \A i \in 1..Len(result.risks) :
                      result.risks[i] \notin TreasuryRisks
        /\ (code = ContractCode /\ owners.st = "threw") =>
               /\ ~Treasury.verified /\ Treasury.points = 0
               /\ Count(result.risks, NonGnosisRisk) = 1

C5_Witness ==
    /\ Returned /\ code = ContractCode
    /\ owners.st = "ok" /\ owners.length = 3 /\ Treasury.verified

\* C6: the Liquidity pillar of a returned report is verified with 150
\* points if and only if the LP-lock data is locked, of at least 180 days
\* and not renounceable; otherwise it is unverified with 0 points.
C6_LiquidityIffQualifyingLock ==
    Returned =>
        IF mockLpLock.locked /\ mockLpLock.days >= 180
           /\ ~mockLpLock.renounceable
        THEN Liquidity.verified /\ Liquidity.points = 150
        ELSE ~Liquidity.verified /\ Liquidity.points = 0

\* C7: in every returned report the aggregate messages match the report:
\* the high-scam risk is in risks exactly once if score < 200 and not at
\* all otherwise; the treasury-not-verified warning is in warnings exactly
\* once if the treasury pillar is unverified, the no-LP-lock warning
\* exactly once if the liquidity pillar is unverified, neither otherwise.
C7_AggregateMessagesMatchReport ==
    Returned =>
        /\ Count(result.risks, HighScamRisk)
               = IF result.score < 200 THEN 1 ELSE 0
        /\ Count(result.warnings, TreasuryNotVerifiedWarning)
               = IF ~Treasury.verified THEN 1 ELSE 0
        /\ Count(result.warnings, NoLpLockWarning)
               = IF ~Liquidity.verified THEN 1 ELSE 0

\* Position of a risk in the canonical order: treasury, liquidity (the
\* Liquidity check emits none), aggregate score; 0 for any other entry.
RiskRank(r) ==
    IF r \in TreasuryRisks THEN 1
    ELSE IF r = HighScamRisk THEN 3
    ELSE 0

\* Position of a warning in the canonical order: treasury checker,
\* liquidity checker (emits none), treasury unverified, liquidity
\* unverified; 0 for any other entry.
WarningRank(w) ==
    IF w \in LowSignerWarnings THEN 1
    ELSE IF w = TreasuryNotVerifiedWarning THEN 3
    ELSE IF w = NoLpLockWarning THEN 4
    ELSE 0

\* The ranked entries of seq appear in strictly increasing rank.
InOrder(seq, Rank(_)) ==
    \A i, j \in 1..Len(seq) :
        (i < j /\ Rank(seq[i]) # 0 /\ Rank(seq[j]) # 0)
            => Rank(seq[i]) < Rank(seq[j])

\* C8: in every returned report the risks appear in the order treasury
\* risk, liquidity risk, aggregate-score risk, and the warnings in the
\* order treasury-checker warning, liquidity-checker warning,
\* treasury-unverified warning, liquidity-unverified warning.
C8_MessagesInPillarOrder ==
    Returned =>
        /\ InOrder(result.risks, RiskRank)
        /\ InOrder(result.warnings, WarningRank)

C8_Witness ==
    /\ Returned
    /\ Len(result.warnings) = 2
    /\ WarningRank(result.warnings[1]) = 1
    /\ WarningRank(result.warnings[2]) = 3

\* The fixed maximum of each pillar.
PillarMax ==
    [n \in PillarNames |->
        IF n \in {"treasuryTransparency", "liquidityCommitment"}
        THEN 150 ELSE 100]

\* C9: every returned report has all four pillar keys, and each pillar is
\* scored binary: points is the pillar maximum iff verified, 0 iff not.
C9_BinaryPillarScoring ==
    Returned =>
        /\ DOMAIN result.pillars = PillarNames
        /\ \A n \in PillarNames :
               /\ result.pillars[n].verified \in BOOLEAN
               /\ result.pillars[n].points = PillarMax[n]
                      <=> result.pillars[n].verified
               /\ result.pillars[n].points = 0
                      <=> ~result.pillars[n].verified

C9_Witness ==
    Returned /\ Team.verified /\ ~Treasury.verified /\ Liquidity.verified

\* C10: in every returned report the fair-launch pillar is unverified; the
\* liquidity pillar is verified with 150 points whenever getCode did not
\* throw; the score is one of 0, 150, 250, 300, 400, and 0 only when
\* getCode threw; the no-LP-lock warning is never in the report.
C10_ReachableReports ==
    Returned =>
        /\ ~FairLaunch.verified
        /\ code # "threw" => (Liquidity.verified /\ Liquidity.points = 150)
        /\ result.score \in {0, 150, 250, 300, 400}
        /\ result.score = 0 => code = "threw"
        /\ Count(result.warnings, NoLpLockWarning) = 0

C10_Witness ==
    Returned /\ code # "threw" /\ result.score = 250 /\ Liquidity.verified

====
